---- MODULE Spec2Model ----
(***************************************************************************)
(* Model of the hive NFT backend: server.js (src/unnamed/part_000) and     *)
(* nft.js.  Each HTTP request occupies one slot of req.  A handler runs    *)
(* atomically from one await of an external call (pinning provider,        *)
(* ledger) to the next, as the event loop runs it; requests interleave at  *)
(* the awaits.  The ledger and the pinning provider are black boxes that   *)
(* answer each call with success or failure; a ledger transaction takes    *)
(* effect in the step in which its handler receives the receipt.  Reads    *)
(* and writes of data/hives.json themselves are taken to succeed, and the  *)
(* file that require() loads is the file that markHiveAsSold rewrites.     *)
(***************************************************************************)
EXTENDS Integers, Sequences, FiniteSets

\* ------------------------------------------------------------------ bounds
\* Number of HTTP requests the server receives in one process lifetime.
MaxReqs == 2

Reqs == 1..MaxReqs

\* ------------------------------------------------------------------ text
\* A string is a tuple of runs <<code point, count>>: count repetitions of one
\* Unicode code point.

\* Buffer.from(str) encodes as UTF-8: bytes taken by one code point.
Utf8Len(c) == IF c < 128 THEN 1 ELSE IF c < 2048 THEN 2 ELSE IF c < 65536 THEN 3 ELSE 4

RECURSIVE ByteLength(_)
\* Buffer.from(str).length
ByteLength(s) ==
    IF s = <<>> THEN 0 ELSE Utf8Len(Head(s)[1]) * Head(s)[2] + ByteLength(Tail(s))

RECURSIVE StrLen(_)
\* str.length, in characters
StrLen(s) == IF s = <<>> THEN 0 ELSE Head(s)[2] + StrLen(Tail(s))

\* The string of the characters with the given code points.
Chars(codes) == [i \in 1..Len(codes) |-> <<codes[i], 1>>]

\* Number.prototype.toString / Long.toString of a non-negative integer, as digits.
RECURSIVE ToString(_)
ToString(n) ==
    IF n < 10 THEN <<(<<48 + n, 1>>)>> ELSE ToString(n \div 10) \o <<(<<48 + (n % 10), 1>>)>>

\* String.prototype.repeat of one character.
Repeat(c, n) == <<(<<c, n>>)>>

\* Upper limit on the metadata bytes of one token.
MaxMetadataBytes == 100

\* ------------------------------------------------------------------ data
Null == "null"

\* Ids of the records of data/hives.json, in file order.
HiveIds == <<"h1", "h2">>
\* An id no record has.
UnknownHive == "h9"

\* The id strings: "HIVE-001" and a 48-character id of two-byte characters.
IdText(h) ==
    IF h = "h2" THEN Repeat(233, 48) ELSE Chars(<<72, 73, 86, 69, 45, 48, 48, 49>>)

Accounts == {"0.0.1234", "0.0.1235"}
Treasury == "0.0.2"
ValidTokenId == "0.0.5678"
ValidSupplyKey == "302e"
Missing == ""
Malformed == "bad"

\* Content hashes the pinning provider may return: 93 and 94 ASCII characters.
PinataHashes == {"cid93", "cid94"}
HashText(c) == IF c = "cid93" THEN Repeat(81, 93) ELSE Repeat(81, 94)
\* Outcomes of the provider call: a hash, or a failure (network error,
\* malformed response, response without IpfsHash).
PinataOutcomes == PinataHashes \cup {"fail"}

\* TokenId.fromString / PrivateKey.fromString / AccountId.fromString succeed.
TokenIdParses(s) == s = ValidTokenId
PrivateKeyParses(s) == s = ValidSupplyKey
AccountIdParses(s) == s \in Accounts

\* Seed record of data/hives.json.
AvailableRecord(h) ==
    [id |-> h, price |-> 5000, status |-> "available",
     owner |-> Null, serialNumber |-> <<>>, soldAt |-> 0]

\* A request header or an environment variable: absent (undefined in the
\* code), or present with a string value.
NoHeader == [present |-> FALSE, value |-> ""]
Header(v) == [present |-> TRUE, value |-> v]

\* Values of process.env.FRONTEND_URL: unset, set to the empty string, set to
\* the address of a deployed frontend.
FrontendUrls == {NoHeader, Header(""), Header("https://hives.example")}

\* allowedOrigins: the two development origins and
\* process.env.FRONTEND_URL || 'https://your-frontend.onrender.com'
AllowedOrigins(frontendUrl) ==
    <<"http://localhost:5173", "http://localhost:3000",
      IF frontendUrl.present /\ frontendUrl.value # ""
          THEN frontendUrl.value ELSE "https://your-frontend.onrender.com">>

\* Array.prototype.includes: undefined is no element of a list of strings.
Includes(list, x) == x.present /\ \E i \in 1..Len(list) : list[i] = x.value

\* The origin callback of the cors middleware: TRUE for callback(null, true),
\* FALSE for callback(new Error('Not allowed by CORS')).  !origin holds of an
\* absent header and of the empty string.
CorsAllows(origin, list) ==
    IF ~origin.present \/ origin.value = "" THEN TRUE
    ELSE IF Includes(list, origin) THEN TRUE
    ELSE FALSE

\* Origin headers a client sends: none, an empty one, the listed origins, the
\* opaque origin "null", and origins that may or may not be listed.
Origins ==
    {NoHeader, Header(""), Header("null"), Header("http://localhost:5173"),
     Header("http://localhost:3000"), Header("https://your-frontend.onrender.com"),
     Header("https://hives.example"), Header("https://evil.example")}

VARIABLES
    hivesFile,     \* contents of data/hives.json: a sequence of hive records
    requireCache,  \* module cache entry of require('./data/hives.json'), or Null
    nfts,          \* ledger: minted tokens, index = serial number
    collections,   \* ledger: number of token collections created
    now,           \* wall clock read by new Date()
    allowedOrigins,\* the allow-list built when the server module is loaded
    req            \* the HTTP requests: handler position, locals and response

vars == <<hivesFile, requireCache, nfts, collections, now, allowedOrigins, req>>


\* ------------------------------------------------------------------ helpers
\* Array.prototype.findIndex(h => h.id === id): first matching index, 0 for -1.
FindIndex(hives, id) ==
    LET hits == {i \in 1..Len(hives) : hives[i].id = id}
    IN  IF hits = {} THEN 0 ELSE CHOOSE i \in hits : \A j \in hits : i <= j

\* require('./data/hives.json'): the first call parses the file and caches the
\* parsed array in the module cache; every later call returns the cached array.
RequireHives == IF requireCache.loaded THEN requireCache.exports ELSE hivesFile
RequireCacheAfter == [loaded |-> TRUE, exports |-> RequireHives]

\* The metadata pointer as text.
UrlText(url) ==
    IF url.scheme = "ipfs"
        THEN Chars(<<105, 112, 102, 115, 58, 47, 47>>) \o HashText(url.ref)
        ELSE Chars(<<104, 105, 118, 101, 58>>) \o IdText(url.ref)

\* No pointer: the value of ipfsUrl before uploadToPinata has returned.
NoUrl == [scheme |-> "none", ref |-> Null]

\* Variant of uploadToPinata: no fallback, a failed upload yields no pointer.
uploadToPinata_NoFallback(hiveId, outcome) ==
    IF outcome \in PinataHashes
        THEN [scheme |-> "ipfs", ref |-> outcome]
        ELSE NoUrl

\* uploadToPinata(metadata), given the provider's outcome: ipfs://<hash>, or
\* in the catch the fallback hive:<Hive ID attribute>.
uploadToPinata(hiveId, outcome) ==
    IF outcome \in PinataHashes
        THEN [scheme |-> "ipfs", ref |-> outcome]
        ELSE [scheme |-> "hive", ref |-> hiveId]

\* Variant of MetadataTooBig: the limit applied to the string's length in
\* characters (ipfsUrl.length) instead of the encoded bytes.
MetadataTooBig_CharLength(url) == StrLen(UrlText(url)) > MaxMetadataBytes

\* metadataBytes.length > 100
MetadataTooBig(url) == ByteLength(UrlText(url)) > MaxMetadataBytes

\* Variant of markHiveAsSold: the owner assignment is left out.
markHiveAsSold_OwnerDropped(hives, hiveId, buyerAccountId, serialNumber, date) ==
    LET hiveIndex == FindIndex(hives, hiveId)
    IN  IF hiveIndex # 0
            THEN [hives EXCEPT ![hiveIndex].status = "sold",
                               ![hiveIndex].serialNumber = serialNumber,
                               ![hiveIndex].soldAt = date]
            ELSE hives

\* Variant of markHiveAsSold: the collection is not read afresh from the file
\* but taken as the handler's lookup got it from require().
markHiveAsSold_FromCache(hives, hiveId, buyerAccountId, serialNumber, date) ==
    LET stale == requireCache.exports
        hiveIndex == FindIndex(stale, hiveId)
    IN  IF hiveIndex # 0
            THEN [stale EXCEPT ![hiveIndex].status = "sold",
                               ![hiveIndex].owner = buyerAccountId,
                               ![hiveIndex].serialNumber = serialNumber,
                               ![hiveIndex].soldAt = date]
            ELSE hives

\* Variant of markHiveAsSold: every record of the collection is marked.
markHiveAsSold_MarksAll(hives, hiveId, buyerAccountId, serialNumber, date) ==
    IF FindIndex(hives, hiveId) # 0
        THEN [i \in 1..Len(hives) |->
                [hives[i] EXCEPT !.status = "sold", !.owner = buyerAccountId,
                                 !.serialNumber = serialNumber, !.soldAt = date]]
        ELSE hives

\* Variant of markHiveAsSold: the soldAt assignment is left out.
markHiveAsSold_NoTimestamp(hives, hiveId, buyerAccountId, serialNumber, date) ==
    LET hiveIndex == FindIndex(hives, hiveId)
    IN  IF hiveIndex # 0
            THEN [hives EXCEPT ![hiveIndex].status = "sold",
                               ![hiveIndex].owner = buyerAccountId,
                               ![hiveIndex].serialNumber = serialNumber]
            ELSE hives

\* Variant of markHiveAsSold: a record that is already sold is left as it is.
markHiveAsSold_KeepsFirstSale(hives, hiveId, buyerAccountId, serialNumber, date) ==
    LET hiveIndex == FindIndex(hives, hiveId)
    IN  IF hiveIndex # 0 /\ hives[hiveIndex].status # "sold"
            THEN [hives EXCEPT ![hiveIndex].status = "sold",
                               ![hiveIndex].owner = buyerAccountId,
                               ![hiveIndex].serialNumber = serialNumber,
                               ![hiveIndex].soldAt = date]
            ELSE hives

\* markHiveAsSold(hiveId, buyerAccountId, serialNumber): the collection that is
\* written back to data/hives.json.
markHiveAsSold(hives, hiveId, buyerAccountId, serialNumber, date) ==
    LET hiveIndex == FindIndex(hives, hiveId)
    IN  IF hiveIndex # 0
            THEN [hives EXCEPT ![hiveIndex].status = "sold",
                               ![hiveIndex].owner = buyerAccountId,
                               ![hiveIndex].serialNumber = serialNumber,
                               ![hiveIndex].soldAt = date]
            ELSE hives


\* An HTTP response that has not been sent.
NoResponse ==
    [code |-> 0, success |-> FALSE, error |-> Null, status |-> Null,
     isAvailable |-> FALSE, owner |-> Null, serialNumber |-> <<>>]

\* res.status(code).json({success:false, error})
ErrorResponse(code, error) == [NoResponse EXCEPT !.code = code, !.error = error]
\* res.json({success:true, ...}) of the minting endpoints
SuccessResponse(serial) ==
    [NoResponse EXCEPT !.code = 200, !.success = TRUE, !.serialNumber = serial]

NoBody == [hiveId |-> Missing, investorAccountId |-> Missing,
           tokenId |-> Missing, supplyKey |-> Missing]

\* A request slot before the request arrives.  ep is the endpoint, pc the
\* await the handler is suspended at, ipfsUrl and serial its locals, res the
\* response sent.  History: nPublish, nCreate, nMint, nTransfer count the calls
\* made to the pinning provider and the transactions executed on the ledger;
\* startedAt and wroteAt are the clock values at which the request looked up
\* the hive and wrote data/hives.json (0: it did not); afterFailedTransfer
\* tells whether, when the request looked up the hive, a purchase of the same
\* hive had already failed at its transfer.
NoRequest ==
    [ep |-> "none", body |-> NoBody, pc |-> "idle", ipfsUrl |-> NoUrl, serial |-> 0,
     res |-> NoResponse,
     nPublish |-> 0, nCreate |-> 0, nMint |-> 0, nTransfer |-> 0,
     startedAt |-> 0, wroteAt |-> 0, afterFailedTransfer |-> FALSE,
     origin |-> NoHeader]

\* Requests are numbered in order of arrival.
Arrives(r) == req[r].ep = "none" /\ (r > 1 => req[r - 1].ep # "none")

\* The handler has sent its response and returned.
Finish(q, res) == [q EXCEPT !.pc = "done", !.res = res]

\* ------------------------------------------------------------------ requests
FullBody(h, a) ==
    [hiveId |-> h, investorAccountId |-> a, tokenId |-> ValidTokenId,
     supplyKey |-> ValidSupplyKey]

\* Request bodies of POST /api/buy-hive: well-formed ones for every hive id and
\* buyer, and ones with one field missing or malformed.
BuyBodies ==
    {FullBody(h, a) : h \in {HiveIds[i] : i \in 1..Len(HiveIds)} \cup {UnknownHive},
                      a \in Accounts}
    \cup {[FullBody("h1", "0.0.1234") EXCEPT ![f] = v] :
            f \in {"investorAccountId", "tokenId", "supplyKey"},
            v \in {Missing, Malformed}}

\* Request bodies of POST /api/mint-nft (investorAccountId is not read; a
\* missing hiveId is replaced by the default).
MintBodies ==
    {FullBody(h, Missing) : h \in {"h1", "h2", Missing}}
    \cup {[FullBody("h1", Missing) EXCEPT ![f] = v] :
            f \in {"tokenId", "supplyKey"}, v \in {Missing, Malformed}}

\* hiveMetadata.hiveId || 'HIVE-001'
HiveIdOrDefault(h) == IF h = Missing THEN "h1" ELSE h

\* ------------------------------------------------------------------ Init
\* data/hives.json as the process finds it: seed records, some of which an
\* earlier run may have sold (the token of such a record is on the ledger).
SeedFile(sold) ==
    [i \in 1..Len(HiveIds) |->
        IF HiveIds[i] \in sold
            THEN [AvailableRecord(HiveIds[i]) EXCEPT
                    !.status = "sold", !.owner = "0.0.1234",
                    !.serialNumber = ToString(Cardinality({j \in 1..i : HiveIds[j] \in sold})),
                    !.soldAt = Cardinality({j \in 1..i : HiveIds[j] \in sold})]
            ELSE AvailableRecord(HiveIds[i])]

SeedLedger(sold) ==
    LET soldIdx == {i \in 1..Len(HiveIds) : HiveIds[i] \in sold}
        nth(k) == CHOOSE i \in soldIdx : Cardinality({j \in soldIdx : j <= i}) = k
    IN  [k \in 1..Cardinality(soldIdx) |->
            [owner |-> "0.0.1234", metadata |-> [scheme |-> "ipfs", ref |-> "cid93"],
             hive |-> HiveIds[nth(k)], by |-> 0]]

\* The state when the server starts listening, given process.env.FRONTEND_URL.
ServerStart(frontendUrl) ==
    \E sold \in SUBSET {HiveIds[i] : i \in 1..Len(HiveIds)} :
        /\ allowedOrigins = AllowedOrigins(frontendUrl)
        /\ hivesFile = SeedFile(sold)
        /\ requireCache = [loaded |-> FALSE, exports |-> <<>>]
        /\ nfts = SeedLedger(sold)
        /\ collections = 0
        /\ now = Cardinality(sold) + 1
        /\ req = [r \in Reqs |-> NoRequest]

\* The handlers never read allowedOrigins: their specification starts the
\* server with FRONTEND_URL unset and follows the requests that the cors
\* middleware passed on.
Init == ServerStart(NoHeader)

\* ------------------------------------------------------------------ POST /api/buy-hive
\* !tokenIdStr || !supplyKeyStr || !investorAccountId
BuyFieldsMissing(body) ==
    body.tokenId = Missing \/ body.supplyKey = Missing \/ body.investorAccountId = Missing

\* The fromString calls of the handler all return.
BuyFieldsParse(body) ==
    /\ TokenIdParses(body.tokenId)
    /\ PrivateKeyParses(body.supplyKey)
    /\ AccountIdParses(body.investorAccountId)

\* hive.status === 'sold'
AlreadySold(hive) == hive.status = "sold"

\* Variant of BuyHiveCatch: the error is thrown on instead of answered.
BuyHiveCatch_Rethrows(q, error) == [q EXCEPT !.pc = "thrown"]

\* The catch of the handler: res.status(500).json({success:false, error: err.message})
BuyHiveCatch(q, error) == Finish(q, ErrorResponse(500, error))

\* A purchase of hive h has ended with its transfer rejected.
TransferFailedFor(h) ==
    \E p \in DOMAIN req :
        /\ req[p].ep = "buy" /\ req[p].pc = "done" /\ req[p].body.hiveId = h
        /\ req[p].nTransfer = 1 /\ ~req[p].res.success

\* Variant of BuyHiveLookup: a hive for which the ledger already holds a token
\* is refused (deduplication of mints by hive id).
BuyHiveLookup_DedupByLedger(q, HIVES) ==
    LET i == FindIndex(HIVES, q.body.hiveId)
    IN  IF i = 0
          THEN Finish(q, ErrorResponse(404, "Hive not found"))
        ELSE IF AlreadySold(HIVES[i])
                \/ \E k \in 1..Len(nfts) : nfts[k].hive = q.body.hiveId
          THEN Finish(q, ErrorResponse(400, "This hive has already been sold"))
        ELSE [q EXCEPT !.pc = "publish", !.nPublish = 1, !.startedAt = now,
                       !.afterFailedTransfer = TransferFailedFor(q.body.hiveId)]

\* Variant of BuyHiveLookup: the metadata upload is started before the sold
\* check.
BuyHiveLookup_PublishBeforeSoldCheck(q, HIVES) ==
    LET i == FindIndex(HIVES, q.body.hiveId)
    IN  IF i = 0
          THEN Finish(q, ErrorResponse(404, "Hive not found"))
        ELSE IF AlreadySold(HIVES[i])
          THEN Finish([q EXCEPT !.nPublish = 1],
                      ErrorResponse(400, "This hive has already been sold"))
        ELSE [q EXCEPT !.pc = "publish", !.nPublish = 1, !.startedAt = now,
                       !.afterFailedTransfer = TransferFailedFor(q.body.hiveId)]

\* Lookup of the hive and the sold check; a hive that passes is published.
BuyHiveLookup(q, HIVES) ==
    LET i == FindIndex(HIVES, q.body.hiveId)
    IN  IF i = 0
          THEN Finish(q, ErrorResponse(404, "Hive not found"))
        ELSE IF AlreadySold(HIVES[i])
          THEN Finish(q, ErrorResponse(400, "This hive has already been sold"))
        ELSE [q EXCEPT !.pc = "publish", !.nPublish = 1, !.startedAt = now,
                       !.afterFailedTransfer = TransferFailedFor(q.body.hiveId)]

\* The handler up to the await of uploadToPinata.
BuyHive(r, body) ==
    /\ Arrives(r)
    /\ LET q == [NoRequest EXCEPT !.ep = "buy", !.body = body]
       IN  IF BuyFieldsMissing(body)
             THEN /\ req' = [req EXCEPT ![r] =
                                Finish(q, ErrorResponse(400, "Missing required fields"))]
                  /\ UNCHANGED requireCache
           ELSE IF ~BuyFieldsParse(body)
             THEN /\ req' = [req EXCEPT ![r] = BuyHiveCatch(q, "failed to parse")]
                  /\ UNCHANGED requireCache
           ELSE /\ requireCache' = RequireCacheAfter
                /\ req' = [req EXCEPT ![r] = BuyHiveLookup(q, RequireHives)]
    /\ UNCHANGED <<allowedOrigins, hivesFile, nfts, collections, now>>

\* From the return of uploadToPinata to the execution of the mint transaction.
BuyHiveAfterUpload(r, outcome) ==
    /\ req[r].ep = "buy" /\ req[r].pc = "publish"
    /\ LET url == uploadToPinata(req[r].body.hiveId, outcome)
           q == [req[r] EXCEPT !.ipfsUrl = url]
       IN  req' = [req EXCEPT ![r] =
                IF MetadataTooBig(url)
                    THEN BuyHiveCatch(q, "Metadata too big (max 100 bytes)")
                    ELSE [q EXCEPT !.pc = "mint", !.nMint = 1]]
    /\ UNCHANGED <<allowedOrigins, hivesFile, requireCache, nfts, collections, now>>

\* Variant of BuyHiveAfterMint: the hive is marked sold as soon as the token
\* is minted, ahead of the transfer.
BuyHiveAfterMint_MarksSold(r, ok) ==
    /\ req[r].ep = "buy" /\ req[r].pc = "mint"
    /\ IF ok
         THEN /\ nfts' = Append(nfts, [owner |-> Treasury, metadata |-> req[r].ipfsUrl,
                                       hive |-> req[r].body.hiveId, by |-> r])
              /\ hivesFile' = markHiveAsSold(hivesFile, req[r].body.hiveId,
                                             req[r].body.investorAccountId,
                                             ToString(Len(nfts) + 1), now)
              /\ req' = [req EXCEPT ![r] =
                            [@ EXCEPT !.serial = Len(nfts) + 1, !.pc = "transfer",
                                      !.nTransfer = 1]]
         ELSE /\ req' = [req EXCEPT ![r] = BuyHiveCatch(@, "mint rejected")]
              /\ UNCHANGED <<nfts, hivesFile>>
    /\ UNCHANGED <<allowedOrigins, requireCache, collections, now>>

\* Variant of BuyHiveAfterMint: a rejected mint is submitted a second time
\* before the handler gives up.
BuyHiveAfterMint_RetriesOnce(r, ok) ==
    /\ req[r].ep = "buy" /\ req[r].pc = "mint"
    /\ IF ok
         THEN /\ nfts' = Append(nfts, [owner |-> Treasury, metadata |-> req[r].ipfsUrl,
                                       hive |-> req[r].body.hiveId, by |-> r])
              /\ req' = [req EXCEPT ![r] =
                            [@ EXCEPT !.serial = Len(nfts) + 1, !.pc = "transfer",
                                      !.nTransfer = 1]]
         ELSE /\ req' = [req EXCEPT ![r] =
                            IF @.nMint < 2 THEN [@ EXCEPT !.nMint = 2]
                                           ELSE BuyHiveCatch(@, "mint rejected")]
              /\ UNCHANGED nfts
    /\ UNCHANGED <<allowedOrigins, hivesFile, requireCache, collections, now>>

\* Variant of BuyHiveAfterMint: a rejected mint is not noticed and the
\* handler goes on to the transfer.
BuyHiveAfterMint_IgnoresFailure(r, ok) ==
    /\ req[r].ep = "buy" /\ req[r].pc = "mint"
    /\ IF ok
         THEN /\ nfts' = Append(nfts, [owner |-> Treasury, metadata |-> req[r].ipfsUrl,
                                       hive |-> req[r].body.hiveId, by |-> r])
              /\ req' = [req EXCEPT ![r] =
                            [@ EXCEPT !.serial = Len(nfts) + 1, !.pc = "transfer",
                                      !.nTransfer = 1]]
         ELSE /\ req' = [req EXCEPT ![r] = [@ EXCEPT !.pc = "transfer", !.nTransfer = 1]]
              /\ UNCHANGED nfts
    /\ UNCHANGED <<allowedOrigins, hivesFile, requireCache, collections, now>>

\* The ledger answers the mint: on success the token exists, owned by the
\* treasury, and the handler executes the transfer transaction.
BuyHiveAfterMint(r, ok) ==
    /\ req[r].ep = "buy" /\ req[r].pc = "mint"
    /\ IF ok
         THEN /\ nfts' = Append(nfts, [owner |-> Treasury, metadata |-> req[r].ipfsUrl,
                                       hive |-> req[r].body.hiveId, by |-> r])
              /\ req' = [req EXCEPT ![r] =
                            [@ EXCEPT !.serial = Len(nfts) + 1, !.pc = "transfer",
                                      !.nTransfer = 1]]
         ELSE /\ req' = [req EXCEPT ![r] = BuyHiveCatch(@, "mint rejected")]
              /\ UNCHANGED nfts
    /\ UNCHANGED <<allowedOrigins, hivesFile, requireCache, collections, now>>

\* Variant of BuyHiveAfterTransfer: the hive is marked sold before the
\* transfer's receipt is awaited, so also when the transfer is rejected.
BuyHiveAfterTransfer_CommitsOnFailure(r, ok) ==
    /\ req[r].ep = "buy" /\ req[r].pc = "transfer"
    /\ LET q == [req[r] EXCEPT !.wroteAt = now]
           serial == ToString(q.serial)
       IN  /\ hivesFile' = markHiveAsSold(hivesFile, q.body.hiveId,
                                          q.body.investorAccountId, serial, now)
           /\ now' = now + 1
           /\ IF ok
                THEN /\ nfts' = [nfts EXCEPT ![q.serial].owner = q.body.investorAccountId]
                     /\ req' = [req EXCEPT ![r] = Finish(q, SuccessResponse(serial))]
                ELSE /\ req' = [req EXCEPT ![r] = BuyHiveCatch(q, "transfer rejected")]
                     /\ UNCHANGED nfts
    /\ UNCHANGED <<allowedOrigins, requireCache, collections>>

\* The ledger answers the transfer: on success the buyer owns the token and
\* the handler marks the hive sold and responds.
BuyHiveAfterTransfer(r, ok) ==
    /\ req[r].ep = "buy" /\ req[r].pc = "transfer"
    /\ LET q == req[r]
           serial == ToString(q.serial)
       IN  IF ok
             THEN /\ nfts' = [nfts EXCEPT ![q.serial].owner = q.body.investorAccountId]
                  /\ hivesFile' = markHiveAsSold(hivesFile, q.body.hiveId,
                                                 q.body.investorAccountId, serial, now)
                  /\ now' = now + 1
                  /\ req' = [req EXCEPT ![r] =
                        Finish([q EXCEPT !.wroteAt =
                                    IF FindIndex(hivesFile, q.body.hiveId) # 0 THEN now ELSE 0],
                               SuccessResponse(serial))]
             ELSE /\ req' = [req EXCEPT ![r] = BuyHiveCatch(q, "transfer rejected")]
                  /\ UNCHANGED <<nfts, hivesFile, now>>
    /\ UNCHANGED <<allowedOrigins, requireCache, collections>>

\* ------------------------------------------------------------------ POST /api/mint-nft
\* res.json(result) of a result {success:false, error} that mintHiveNFT or
\* createHiveTokenCollection returned from its own catch: no status is set.
FailureResult(error) == [NoResponse EXCEPT !.code = 200, !.error = error]

\* The catch of the mint-nft handler.
MintNftCatch(q, error) == Finish(q, ErrorResponse(500, error))

\* The handler and mintHiveNFT up to the await of uploadToPinata.
MintNft(r, body) ==
    /\ Arrives(r)
    /\ LET q == [NoRequest EXCEPT !.ep = "mint", !.body = body]
       IN  req' = [req EXCEPT ![r] =
                IF body.tokenId = Missing \/ body.supplyKey = Missing
                    THEN Finish(q, ErrorResponse(400, "Missing tokenId or supplyKey"))
                ELSE IF ~(TokenIdParses(body.tokenId) /\ PrivateKeyParses(body.supplyKey))
                    THEN MintNftCatch(q, "failed to parse")
                ELSE [q EXCEPT !.pc = "publish", !.nPublish = 1]]
    /\ UNCHANGED <<allowedOrigins, hivesFile, requireCache, nfts, collections, now>>

\* mintHiveNFT from the return of uploadToPinata to the execution of the mint.
MintHiveNFTAfterUpload(r, outcome) ==
    /\ req[r].ep = "mint" /\ req[r].pc = "publish"
    /\ LET url == uploadToPinata(HiveIdOrDefault(req[r].body.hiveId), outcome)
           q == [req[r] EXCEPT !.ipfsUrl = url]
       IN  req' = [req EXCEPT ![r] =
                IF MetadataTooBig(url)
                    THEN Finish(q, FailureResult("Metadata too long"))
                    ELSE [q EXCEPT !.pc = "mint", !.nMint = 1]]
    /\ UNCHANGED <<allowedOrigins, hivesFile, requireCache, nfts, collections, now>>

\* The ledger answers the mint of mintHiveNFT; the handler sends the result.
MintHiveNFTAfterMint(r, ok) ==
    /\ req[r].ep = "mint" /\ req[r].pc = "mint"
    /\ IF ok
         THEN /\ nfts' = Append(nfts, [owner |-> Treasury, metadata |-> req[r].ipfsUrl,
                                       hive |-> HiveIdOrDefault(req[r].body.hiveId),
                                       by |-> r])
              /\ req' = [req EXCEPT ![r] =
                            Finish([@ EXCEPT !.serial = Len(nfts) + 1],
                                   SuccessResponse(ToString(Len(nfts) + 1)))]
         ELSE /\ req' = [req EXCEPT ![r] = Finish(@, FailureResult("mint rejected"))]
              /\ UNCHANGED nfts
    /\ UNCHANGED <<allowedOrigins, hivesFile, requireCache, collections, now>>

\* ------------------------------------------------------------------ POST /api/create-token
\* The handler and createHiveTokenCollection up to the execution of the
\* collection-creation transaction.
CreateToken(r) ==
    /\ Arrives(r)
    /\ req' = [req EXCEPT ![r] =
                [NoRequest EXCEPT !.ep = "create", !.pc = "create", !.nCreate = 1]]
    /\ UNCHANGED <<allowedOrigins, hivesFile, requireCache, nfts, collections, now>>

\* The ledger answers the collection creation; the handler sends the result.
CreateTokenAfterExecute(r, ok) ==
    /\ req[r].ep = "create" /\ req[r].pc = "create"
    /\ IF ok
         THEN /\ collections' = collections + 1
              /\ req' = [req EXCEPT ![r] = Finish(@, SuccessResponse(<<>>))]
         ELSE /\ req' = [req EXCEPT ![r] = Finish(@, FailureResult("creation rejected"))]
              /\ UNCHANGED collections
    /\ UNCHANGED <<allowedOrigins, hivesFile, requireCache, nfts, now>>

\* ------------------------------------------------------------------ GET endpoints
\* hive.owner || null, hive.serialNumber || null are the stored values here:
\* an absent field is stored as Null / the empty string.
HiveStatusResponse(hive) ==
    [NoResponse EXCEPT !.code = 200, !.success = TRUE, !.status = hive.status,
                       !.isAvailable = (hive.status # "sold"),
                       !.owner = hive.owner, !.serialNumber = hive.serialNumber]

\* GET /api/hive-status/:hiveId (no await: the handler runs in one step).
HiveStatus(r, hiveId) ==
    /\ Arrives(r)
    /\ LET q == [NoRequest EXCEPT !.ep = "status", !.body = [NoBody EXCEPT !.hiveId = hiveId]]
           HIVES == RequireHives
           i == FindIndex(HIVES, hiveId)
       IN  /\ requireCache' = RequireCacheAfter
           /\ req' = [req EXCEPT ![r] =
                IF i = 0 THEN Finish(q, ErrorResponse(404, "Hive not found"))
                         ELSE Finish(q, HiveStatusResponse(HIVES[i]))]
    /\ UNCHANGED <<allowedOrigins, hivesFile, nfts, collections, now>>

\* GET /health
Health(r) ==
    /\ Arrives(r)
    /\ req' = [req EXCEPT ![r] =
                Finish([NoRequest EXCEPT !.ep = "health"],
                       [NoResponse EXCEPT !.code = 200, !.status = "ok"])]
    /\ UNCHANGED <<allowedOrigins, hivesFile, requireCache, nfts, collections, now>>

\* ------------------------------------------------------------------ specification
AllHiveIds == {HiveIds[i] : i \in 1..Len(HiveIds)}

Next ==
    \/ \E r \in Reqs, body \in BuyBodies : BuyHive(r, body)
    \/ \E r \in Reqs, outcome \in PinataOutcomes : BuyHiveAfterUpload(r, outcome)
    \/ \E r \in Reqs, ok \in BOOLEAN : BuyHiveAfterMint(r, ok)
    \/ \E r \in Reqs, ok \in BOOLEAN : BuyHiveAfterTransfer(r, ok)
    \/ \E r \in Reqs, body \in MintBodies : MintNft(r, body)
    \/ \E r \in Reqs, outcome \in PinataOutcomes : MintHiveNFTAfterUpload(r, outcome)
    \/ \E r \in Reqs, ok \in BOOLEAN : MintHiveNFTAfterMint(r, ok)
    \/ \E r \in Reqs : CreateToken(r)
    \/ \E r \in Reqs, ok \in BOOLEAN : CreateTokenAfterExecute(r, ok)
    \/ \E r \in Reqs, hiveId \in AllHiveIds \cup {UnknownHive} : HiveStatus(r, hiveId)
    \/ \E r \in Reqs : Health(r)

Spec == Init /\ [][Next]_vars

\* ------------------------------------------------------------------ cors middleware
\* app.use(cors({origin: ...})): the middleware runs the origin callback on the
\* request's Origin header; on true it calls next() and the request goes on to
\* its route, on an error it passes the error on and Express answers 500.
CorsRequest(r, origin) ==
    /\ Arrives(r)
    /\ req' = [req EXCEPT ![r] =
                 IF CorsAllows(origin, allowedOrigins)
                     THEN [NoRequest EXCEPT !.ep = "cors", !.origin = origin, !.pc = "route"]
                     ELSE Finish([NoRequest EXCEPT !.ep = "cors", !.origin = origin],
                                 ErrorResponse(500, "Not allowed by CORS"))]
    /\ UNCHANGED <<allowedOrigins, hivesFile, requireCache, nfts, collections, now>>

CorsInit == \E frontendUrl \in FrontendUrls : ServerStart(frontendUrl)

CorsNext == \E r \in Reqs, origin \in Origins : CorsRequest(r, origin)

CorsSpec == CorsInit /\ [][CorsNext]_vars

\* ------------------------------------------------------------------ vocabulary of the claims
\* The record of hive h in a collection (h is the id of one of its records).
RecordOf(hives, h) == hives[FindIndex(hives, h)]

\* A purchase request that answered with success.
BuySucceeded(q) == q.ep = "buy" /\ q.pc = "done" /\ q.res.success

\* Request r sends its response in this step.
Responds(r) == req[r].pc # "done" /\ req'[r].pc = "done"

\* ------------------------------------------------------------------ C1
\* C1: after a successful purchase of a hive, a later POST /api/buy-hive for the
\* same hive id with well-formed fields is answered 400 "This hive has already
\* been sold" and executes no mint and no transfer.
C1_SecondPurchaseRejected ==
    [][\A r \in Reqs, body \in BuyBodies :
         ( /\ BuyHive(r, body)
           /\ BuyFieldsParse(body)
           /\ \E p \in Reqs : BuySucceeded(req[p]) /\ req[p].body.hiveId = body.hiveId )
         => /\ req'[r].pc = "done"
            /\ req'[r].res.code = 400
            /\ req'[r].res.error = "This hive has already been sold"
            /\ req'[r].nMint = 0 /\ req'[r].nTransfer = 0]_vars

SuccessfulBuyers(h) == {r \in Reqs : BuySucceeded(req[r]) /\ req[r].body.hiveId = h}

\* C3: when two (or more) purchase requests for the same hive have succeeded,
\* each has a token of its own on the ledger, minted for it and transferred to
\* its buyer, and the persisted record holds the owner and serial of the one
\* whose markHiveAsSold write came last, and of no other.
C3_LastWriteSurvives ==
    \A h \in AllHiveIds :
        LET S == SuccessfulBuyers(h)
            last == CHOOSE r \in S : \A p \in S : req[p].wroteAt <= req[r].wroteAt
            rec == RecordOf(hivesFile, h)
        IN  Cardinality(S) >= 2 =>
              /\ \A r \in S :
                    /\ req[r].serial \in 1..Len(nfts)
                    /\ nfts[req[r].serial].by = r
                    /\ nfts[req[r].serial].owner = req[r].body.investorAccountId
              /\ \A r1, r2 \in S : r1 # r2 => req[r1].serial # req[r2].serial
              /\ rec.status = "sold"
              /\ rec.owner = req[last].body.investorAccountId
              /\ rec.serialNumber = ToString(req[last].serial)
              /\ rec.soldAt = req[last].wroteAt
              /\ \A r \in S \ {last} : rec.serialNumber # ToString(req[r].serial)

\* Two purchases of one hive by different buyers have both succeeded, and each
\* looked the hive up before either wrote the file.
C3_Witness ==
    \E r1, r2 \in Reqs :
        /\ r1 # r2
        /\ BuySucceeded(req[r1]) /\ BuySucceeded(req[r2])
        /\ req[r1].body.hiveId = req[r2].body.hiveId
        /\ req[r1].body.investorAccountId # req[r2].body.investorAccountId
        /\ req[r1].wroteAt < req[r2].wroteAt
        /\ req[r2].startedAt <= req[r1].wroteAt
        /\ RecordOf(hivesFile, req[r1].body.hiveId).owner = req[r2].body.investorAccountId
        /\ nfts[req[r1].serial].owner = req[r1].body.investorAccountId

\* ------------------------------------------------------------------ C4, C5
\* No request has written the record of hive h.
Unwritten(h) == \A p \in Reqs : req[p].wroteAt = 0 \/ req[p].body.hiveId # h

\* A purchase request whose mint the ledger rejected.
MintFailed(q) == q.ep = "buy" /\ q.pc = "done" /\ q.nMint = 1 /\ q.serial = 0

\* A purchase request whose transfer the ledger rejected.
TransferFailed(q) == q.ep = "buy" /\ q.pc = "done" /\ q.nTransfer = 1 /\ ~q.res.success

\* C4: a purchase request whose mint fails answers 500 {success:false, error}
\* in the step that learns of the failure, executes no transfer, and does not
\* write the store: the file is unchanged by that step, and the record is
\* still available unless another request has sold the hive.
C4_MintFailure ==
    /\ [][\A r \in Reqs :
            ( /\ req[r].ep = "buy" /\ req[r].pc = "mint"
              /\ req'[r] # req[r] /\ nfts' = nfts )
            => /\ req'[r].pc = "done"
               /\ req'[r].res.code = 500
               /\ ~req'[r].res.success /\ req'[r].res.error # Null
               /\ req'[r].nTransfer = 0
               /\ hivesFile' = hivesFile]_vars
    /\ [](\A r \in Reqs :
            MintFailed(req[r]) =>
              /\ req[r].res.code = 500
              /\ req[r].nTransfer = 0 /\ req[r].wroteAt = 0
              /\ \A k \in 1..Len(nfts) : nfts[k].by # r
              /\ Unwritten(req[r].body.hiveId) =>
                    RecordOf(hivesFile, req[r].body.hiveId).status = "available")

\* A purchase has failed at the mint and its hive is still available.
C4_Witness ==
    \E r \in Reqs :
        /\ MintFailed(req[r])
        /\ RecordOf(hivesFile, req[r].body.hiveId).status = "available"

\* C5: a purchase request whose transfer fails after its mint answers 500 and
\* does not write the store (the record is still available unless another
\* request has sold the hive); the minted token stays with the treasury and
\* the request executes no further ledger transaction.
C5_TransferFailure ==
    /\ [][\A r \in Reqs :
            ( /\ req[r].ep = "buy" /\ req[r].pc = "transfer"
              /\ req'[r] # req[r]
              /\ nfts'[req[r].serial].owner = Treasury )
            => /\ req'[r].pc = "done"
               /\ req'[r].res.code = 500 /\ ~req'[r].res.success
               /\ req'[r].nMint = 1 /\ req'[r].nTransfer = 1
               /\ hivesFile' = hivesFile
               /\ nfts' = nfts]_vars
    /\ [](\A r \in Reqs :
            TransferFailed(req[r]) =>
              /\ req[r].res.code = 500
              /\ req[r].wroteAt = 0
              /\ nfts[req[r].serial].by = r
              /\ nfts[req[r].serial].owner = Treasury
              /\ Unwritten(req[r].body.hiveId) =>
                    RecordOf(hivesFile, req[r].body.hiveId).status = "available")

\* A purchase has failed at the transfer: its token is with the treasury and
\* its hive is still available.
C5_Witness ==
    \E r \in Reqs :
        /\ TransferFailed(req[r])
        /\ nfts[req[r].serial].owner = Treasury
        /\ RecordOf(hivesFile, req[r].body.hiveId).status = "available"

\* ------------------------------------------------------------------ C6
\* Request r has received its metadata pointer.
HasPointer(q) == q.ipfsUrl # NoUrl

\* C6: a request of either minting endpoint whose metadata pointer is longer
\* than 100 bytes has failed without executing a mint or a transfer and without
\* writing the store, and no token on the ledger carries such a pointer; a
\* request whose pointer is at most 100 bytes has executed its mint.
C6_PointerLimit ==
    /\ \A r \in Reqs :
         HasPointer(req[r]) =>
            IF ByteLength(UrlText(req[r].ipfsUrl)) > 100
              THEN /\ req[r].pc = "done" /\ ~req[r].res.success
                   /\ req[r].res.error # Null
                   /\ req[r].nMint = 0 /\ req[r].nTransfer = 0
                   /\ req[r].wroteAt = 0
                   /\ \A k \in 1..Len(nfts) : nfts[k].by # r
              ELSE req[r].nMint = 1
    /\ \A k \in 1..Len(nfts) : ByteLength(UrlText(nfts[k].metadata)) <= 100

\* One request was refused for a fallback pointer of 101 bytes (53
\* characters) and another has minted with a pointer of exactly 100 bytes.
C6_Witness ==
    \E r1, r2 \in Reqs :
        /\ req[r1].ep = "buy" /\ req[r1].ipfsUrl.scheme = "hive"
        /\ ByteLength(UrlText(req[r1].ipfsUrl)) = 101
        /\ StrLen(UrlText(req[r1].ipfsUrl)) = 53
        /\ req[r1].res.code = 500
        /\ RecordOf(hivesFile, req[r1].body.hiveId).status = "available"
        /\ HasPointer(req[r2])
        /\ ByteLength(UrlText(req[r2].ipfsUrl)) = 100
        /\ req[r2].res.success

\* ------------------------------------------------------------------ C7
\* C7: a hive-status request for hive h made after a markHiveAsSold write for h
\* has completed reports status sold, isAvailable false, and the owner and
\* serialNumber that are in the file.
C7_StatusReadsPersisted ==
    [][\A r \in Reqs, h \in AllHiveIds :
         ( /\ HiveStatus(r, h)
           /\ \E p \in Reqs : req[p].wroteAt # 0 /\ req[p].body.hiveId = h )
         => /\ req'[r].res.code = 200
            /\ req'[r].res.status = "sold"
            /\ ~req'[r].res.isAvailable
            /\ req'[r].res.owner = RecordOf(hivesFile, h).owner
            /\ req'[r].res.serialNumber = RecordOf(hivesFile, h).serialNumber]_vars

\* ------------------------------------------------------------------ C8
\* A create-token or mint-nft request whose transaction the ledger rejected.
LedgerRejected(q) ==
    /\ q.pc = "done" /\ ~q.res.success
    /\ \/ q.ep = "create" /\ q.nCreate = 1
       \/ q.ep = "mint" /\ q.nMint = 1

\* C8: a create-token or mint-nft request whose transaction the ledger
\* rejected is answered with status 500 and {success:false, error}.
C8_LedgerRejectionIs500 ==
    \A r \in Reqs :
        LedgerRejected(req[r]) => req[r].res.code = 500 /\ req[r].res.error # Null

\* ------------------------------------------------------------------ C9
\* C9: a purchase request is answered 400 when a required field is missing,
\* 404 when no record has its hive id and 400 when the record looked up is
\* sold; and the step in which a purchase request is answered 400 or 404 ends
\* the request with no call to the pinning provider, no ledger transaction by
\* it, and the store and the ledger unchanged.
C9_ValidateRejectsWithoutEffect ==
    /\ [][\A r \in Reqs, body \in BuyBodies :
            BuyHive(r, body) =>
              /\ BuyFieldsMissing(body) => req'[r].res.code = 400
              /\ (BuyFieldsParse(body) /\ body.hiveId \notin AllHiveIds)
                    => req'[r].res.code = 404
              /\ ( /\ BuyFieldsParse(body) /\ body.hiveId \in AllHiveIds
                   /\ RecordOf(RequireHives, body.hiveId).status = "sold" )
                    => /\ req'[r].res.code = 400
                       /\ req'[r].res.error = "This hive has already been sold"]_vars
    /\ [][\A r \in Reqs :
            ( /\ req[r].res.code = 0
              /\ req'[r].ep = "buy"
              /\ req'[r].res.code \in {400, 404} )
            => /\ req'[r].pc = "done"
               /\ req'[r].nPublish = 0
               /\ req'[r].nMint = 0 /\ req'[r].nTransfer = 0
               /\ req'[r].wroteAt = 0
               /\ hivesFile' = hivesFile
               /\ nfts' = nfts
               /\ collections' = collections]_vars

\* One purchase was refused because the hive is sold and another because no
\* record has its hive id; neither reached the provider or the ledger.
C9_Witness ==
    \E r1, r2 \in Reqs :
        /\ req[r1].ep = "buy" /\ req[r1].res.code = 400
        /\ req[r1].res.error = "This hive has already been sold"
        /\ req[r1].nPublish = 0
        /\ req[r2].ep = "buy" /\ req[r2].res.code = 404
        /\ req[r2].nPublish = 0
        /\ \A k \in 1..Len(nfts) : nfts[k].by = 0

\* ------------------------------------------------------------------ C10
\* A request of a minting endpoint whose required fields are all present but
\* of which one cannot be parsed.
MalformedFields(q) ==
    \/ q.ep = "buy" /\ ~BuyFieldsMissing(q.body) /\ ~BuyFieldsParse(q.body)
    \/ /\ q.ep = "mint"
       /\ q.body.tokenId # Missing /\ q.body.supplyKey # Missing
       /\ ~(TokenIdParses(q.body.tokenId) /\ PrivateKeyParses(q.body.supplyKey))

\* C10: a buy-hive or mint-nft request with a field that is present but
\* cannot be parsed is answered with status 400.
C10_MalformedIs400 ==
    \A r \in Reqs :
        (req[r].pc = "done" /\ MalformedFields(req[r])) => req[r].res.code = 400

\* ------------------------------------------------------------------ C11
\* C11: a well-formed purchase request for a hive that arrives after another
\* purchase of that hive failed at its transfer passes validation and goes on
\* to publish and mint; a mint the ledger accepts adds a token; and the token
\* such a request mints is another one than the token of the failed purchase,
\* both minted for the same hive.
C11_RetryMintsAgain ==
    /\ [][\A r \in Reqs, body \in BuyBodies :
            (BuyHive(r, body) /\ BuyFieldsParse(body) /\ TransferFailedFor(body.hiveId))
            => /\ req'[r].pc = "publish" /\ req'[r].nPublish = 1
               /\ req'[r].afterFailedTransfer]_vars
    /\ [][\A r \in Reqs : BuyHiveAfterMint(r, TRUE) => Len(nfts') = Len(nfts) + 1]_vars
    /\ [](\A r, p \in Reqs :
            ( /\ r # p
              /\ req[r].ep = "buy" /\ req[r].afterFailedTransfer
              /\ TransferFailed(req[p]) /\ req[p].body.hiveId = req[r].body.hiveId ) =>
              /\ ~MetadataTooBig(req[r].ipfsUrl) /\ HasPointer(req[r]) => req[r].nMint = 1
              /\ req[r].serial # 0 =>
                    /\ req[r].serial # req[p].serial
                    /\ nfts[req[r].serial].hive = req[r].body.hiveId
                    /\ nfts[req[p].serial].hive = req[r].body.hiveId
                    /\ nfts[req[r].serial].by = r /\ nfts[req[p].serial].by = p)

\* A purchase failed at its transfer, and a purchase of the same hive that
\* arrived afterwards has minted a second token for the hive.
C11_Witness ==
    \E r, p \in Reqs :
        /\ r # p
        /\ TransferFailed(req[p])
        /\ req[r].ep = "buy" /\ req[r].afterFailedTransfer
        /\ req[r].body.hiveId = req[p].body.hiveId
        /\ req[r].serial # 0 /\ req[r].serial # req[p].serial
        /\ nfts[req[p].serial].owner = Treasury
        /\ nfts[req[r].serial].hive = nfts[req[p].serial].hive

\* ------------------------------------------------------------------ C12
\* A record as seeded (available, nothing of a sale written) or a record of a
\* complete sale.
Untouched(rec) ==
    rec.status = "available" /\ rec.owner = Null /\ rec.serialNumber = <<>> /\ rec.soldAt = 0
FullySold(rec) ==
    rec.status = "sold" /\ rec.owner # Null /\ rec.serialNumber # <<>> /\ rec.soldAt # 0

\* C12: every record of the persisted collection, and every record of the
\* collection that the handlers look hives up in, is either untouched or sold
\* with owner, serialNumber and soldAt all set; a hive-status response shows
\* either no owner and no serial with status available, or both with sold.
C12_NoPartialRecord ==
    /\ \A i \in 1..Len(hivesFile) : Untouched(hivesFile[i]) \/ FullySold(hivesFile[i])
    /\ \A i \in 1..Len(requireCache.exports) :
          Untouched(requireCache.exports[i]) \/ FullySold(requireCache.exports[i])
    /\ \A r \in Reqs :
          (req[r].ep = "status" /\ req[r].res.code = 200) =>
             \/ /\ req[r].res.status = "available"
                /\ req[r].res.owner = Null /\ req[r].res.serialNumber = <<>>
             \/ /\ req[r].res.status = "sold"
                /\ req[r].res.owner # Null /\ req[r].res.serialNumber # <<>>

\* A purchase of this run has written its hive's record, which is fully sold,
\* while another record is untouched.
C12_Witness ==
    \E r \in Reqs, i, j \in 1..Len(hivesFile) :
        /\ BuySucceeded(req[r]) /\ req[r].wroteAt # 0
        /\ hivesFile[i].id = req[r].body.hiveId
        /\ hivesFile[i].soldAt = req[r].wroteAt
        /\ FullySold(hivesFile[i])
        /\ Untouched(hivesFile[j])

\* ------------------------------------------------------------------ C13
\* The pointers that uploadToPinata is to return.
IpfsUrlOf(hash) == Chars(<<105, 112, 102, 115, 58, 47, 47>>) \o HashText(hash)
FallbackOf(hiveId) == Chars(<<104, 105, 118, 101, 58>>) \o IdText(hiveId)

\* The value of the "Hive ID" attribute of the document request q publishes.
PublishedHiveId(q) == IF q.ep = "mint" THEN HiveIdOrDefault(q.body.hiveId) ELSE q.body.hiveId

\* C13: the return of uploadToPinata gives the request a pointer in every
\* case: ipfs://<hash> when the provider returned a hash, hive:<hive id> when
\* the call failed; two requests that got the fallback for the same hive id
\* hold the identical string; and no request is past its publish step without
\* a pointer.
C13_PublishAlwaysYields ==
    /\ [][\A r \in Reqs, outcome \in PinataOutcomes :
            (BuyHiveAfterUpload(r, outcome) \/ MintHiveNFTAfterUpload(r, outcome))
            => /\ HasPointer(req'[r])
               /\ outcome \in PinataHashes =>
                     /\ req'[r].ipfsUrl.scheme = "ipfs"
                     /\ UrlText(req'[r].ipfsUrl) = IpfsUrlOf(outcome)
               /\ outcome = "fail" =>
                     /\ req'[r].ipfsUrl.scheme = "hive"
                     /\ UrlText(req'[r].ipfsUrl) = FallbackOf(PublishedHiveId(req[r]))]_vars
    /\ [](\A r1, r2 \in Reqs :
            ( /\ req[r1].ipfsUrl.scheme = "hive" /\ req[r2].ipfsUrl.scheme = "hive"
              /\ PublishedHiveId(req[r1]) = PublishedHiveId(req[r2]) )
            => UrlText(req[r1].ipfsUrl) = UrlText(req[r2].ipfsUrl))
    /\ [](\A r \in Reqs :
            (req[r].nPublish = 1 /\ req[r].pc # "publish") => HasPointer(req[r]))

\* Two requests got the fallback for the same hive id, and it is the same
\* string hive:HIVE-001 of 13 bytes.
C13_Witness ==
    \E r1, r2 \in Reqs :
        /\ r1 # r2
        /\ req[r1].ipfsUrl.scheme = "hive" /\ req[r2].ipfsUrl.scheme = "hive"
        /\ PublishedHiveId(req[r1]) = PublishedHiveId(req[r2])
        /\ UrlText(req[r1].ipfsUrl) = UrlText(req[r2].ipfsUrl)
        /\ ByteLength(UrlText(req[r1].ipfsUrl)) = 13
        /\ req[r1].nMint = 1

\* ------------------------------------------------------------------ C14
\* The tokens on the ledger that request r minted.
MintedBy(tokens, r) == {k \in 1..Len(tokens) : tokens[k].by = r}

\* The ledger rejects the transaction that request r is waiting for: r takes
\* a step and the ledger is as before.
LedgerRejects(r) ==
    /\ req[r].pc \in {"mint", "transfer", "create"}
    /\ req'[r] # req[r]
    /\ nfts' = nfts /\ collections' = collections

\* C14: a request calls the pinning provider at most once and executes each
\* kind of ledger transaction at most once; the step in which the ledger
\* rejects its transaction ends the request with no further call; and a
\* request that has responded never calls again.
C14_NoRetries ==
    /\ [](\A r \in Reqs :
            /\ req[r].nPublish <= 1 /\ req[r].nCreate <= 1
            /\ req[r].nMint <= 1 /\ req[r].nTransfer <= 1
            /\ Cardinality(MintedBy(nfts, r)) <= 1)
    /\ [][\A r \in Reqs :
            LedgerRejects(r) =>
              /\ req'[r].pc = "done" /\ ~req'[r].res.success
              /\ req'[r].res.error # Null
              /\ req'[r].nPublish = req[r].nPublish /\ req'[r].nCreate = req[r].nCreate
              /\ req'[r].nMint = req[r].nMint /\ req'[r].nTransfer = req[r].nTransfer]_vars
    /\ [][\A r \in Reqs :
            req[r].pc = "done" =>
              /\ req'[r] = req[r]
              /\ MintedBy(nfts', r) = MintedBy(nfts, r)]_vars

\* One purchase has ended at a rejected mint and another at a rejected
\* transfer, each having executed every transaction once.
C14_Witness ==
    \E r1, r2 \in Reqs :
        /\ MintFailed(req[r1]) /\ req[r1].nPublish = 1 /\ req[r1].nMint = 1
        /\ req[r1].nTransfer = 0
        /\ TransferFailed(req[r2]) /\ req[r2].nMint = 1 /\ req[r2].nTransfer = 1
        /\ Cardinality(MintedBy(nfts, r2)) = 1

\* ------------------------------------------------------------------ C15
\* Every external call of a purchase request eventually returns or fails: the
\* handler is resumed after each await.
LiveSpec ==
    /\ Spec
    /\ \A r \in Reqs :
          /\ WF_vars(\E outcome \in PinataOutcomes : BuyHiveAfterUpload(r, outcome))
          /\ WF_vars(\E ok \in BOOLEAN : BuyHiveAfterMint(r, ok))
          /\ WF_vars(\E ok \in BOOLEAN : BuyHiveAfterTransfer(r, ok))

\* C15: a purchase request has responded exactly when its handler has ended;
\* its response is a success with status 200 or {success:false, error} with
\* status 400, 404 or 500; a response once sent is never replaced; and every
\* purchase request eventually responds.
C15_OneResponse ==
    /\ [](\A r \in Reqs :
            req[r].ep = "buy" =>
              /\ req[r].pc \in {"publish", "mint", "transfer", "done"}
              /\ (req[r].pc = "done") <=> (req[r].res.code # 0)
              /\ req[r].pc = "done" =>
                    \/ req[r].res.code = 200 /\ req[r].res.success
                    \/ /\ req[r].res.code \in {400, 404, 500}
                       /\ ~req[r].res.success /\ req[r].res.error # Null)
    /\ [][\A r \in Reqs : req[r].res.code # 0 => req'[r].res = req[r].res]_vars
    /\ \A r \in Reqs : (req[r].ep = "buy") ~> (req[r].pc = "done" /\ req[r].res.code # 0)

\* One purchase has ended in success and another in a failure answered 500
\* after its mint.
C15_Witness ==
    \E r1, r2 \in Reqs :
        /\ BuySucceeded(req[r1]) /\ req[r1].res.code = 200
        /\ TransferFailed(req[r2]) /\ req[r2].res.code = 500

Commits(r) ==
    /\ req[r].ep = "buy" /\ req[r].pc = "transfer"
    /\ req'[r].pc = "done" /\ req'[r].res.success

\* The endpoints other than the purchase.
OtherEndpoints == {"mint", "create", "status", "health"}

\* C17: the persisted collection is written only by the Commit step of a
\* purchase, which changes only status, owner, serialNumber and soldAt of the
\* record whose id is the request's hiveId: the number, order and ids of the
\* records and all fields of the other records stay; no step of create-token,
\* mint-nft, hive-status or health changes the collection.
C17_StoreFrame ==
    [][ /\ hivesFile' # hivesFile =>
              \E r \in Reqs :
                  /\ Commits(r)
                  /\ Len(hivesFile') = Len(hivesFile)
                  /\ \A i \in 1..Len(hivesFile) :
                        /\ hivesFile'[i].id = hivesFile[i].id
                        /\ hivesFile'[i].price = hivesFile[i].price
                        /\ hivesFile[i].id # req[r].body.hiveId
                              => hivesFile'[i] = hivesFile[i]
        /\ \A r \in Reqs :
              (req'[r] # req[r] /\ req'[r].ep \in OtherEndpoints)
                  => hivesFile' = hivesFile ]_vars

\* A purchase has committed the sale of one hive while another hive's record
\* is still available, and a request to another endpoint has been answered.
C17_Witness ==
    \E r, p \in Reqs :
        /\ BuySucceeded(req[r]) /\ req[r].wroteAt # 0
        /\ RecordOf(hivesFile, req[r].body.hiveId).soldAt = req[r].wroteAt
        /\ \E h \in AllHiveIds \ {req[r].body.hiveId} :
               RecordOf(hivesFile, h) = AvailableRecord(h)
        /\ req[p].ep \in OtherEndpoints /\ req[p].pc = "done"

\* ------------------------------------------------------------------ C18
\* Token k was minted for hive h by a purchase: one of an earlier run of the
\* server (the seed data) or a purchase request of this run.
MintedByPurchase(k, h) ==
    /\ k \in 1..Len(nfts)
    /\ nfts[k].hive = h
    /\ nfts[k].by # 0 => req[nfts[k].by].ep = "buy" /\ req[nfts[k].by].body.hiveId = h

\* C18: whenever the persisted record of a hive is sold with owner o and
\* serialNumber s, the token with serial s was minted by a purchase of that
\* hive and the ledger has confirmed its transfer to o, to the request that
\* wrote the record and before it wrote: the record is never sold ahead of
\* or without a successful mint and transfer.
C18_StoreLedgerConsistent ==
    \A i \in 1..Len(hivesFile) :
        hivesFile[i].status = "sold" =>
            \E k \in 1..Len(nfts) :
                /\ hivesFile[i].serialNumber = ToString(k)
                /\ MintedByPurchase(k, hivesFile[i].id)
                /\ nfts[k].owner = hivesFile[i].owner
                /\ nfts[k].by # 0 =>
                      LET q == req[nfts[k].by]
                      IN  /\ q.nMint = 1 /\ q.nTransfer = 1 /\ q.serial = k
                          /\ q.pc = "done" /\ q.res.success
                          /\ q.body.investorAccountId = hivesFile[i].owner
                          /\ q.wroteAt = hivesFile[i].soldAt

\* A record is sold by a purchase of this run, whose token the buyer owns,
\* while another purchase has minted a token whose transfer was rejected.
C18_Witness ==
    \E r, p \in Reqs :
        /\ BuySucceeded(req[r])
        /\ RecordOf(hivesFile, req[r].body.hiveId).serialNumber = ToString(req[r].serial)
        /\ nfts[req[r].serial].by = r
        /\ nfts[req[r].serial].owner = req[r].body.investorAccountId
        /\ TransferFailed(req[p]) /\ nfts[req[p].serial].owner = Treasury

\* ------------------------------------------------------------------ C19
\* The persisted record of the hive of purchase request r holds r's sale.
HoldsSaleOf(r) ==
    LET rec == RecordOf(hivesFile, req[r].body.hiveId)
    IN  /\ rec.status = "sold"
        /\ rec.owner = req[r].body.investorAccountId
        /\ rec.serialNumber = ToString(req[r].serial)

\* No successful purchase of the hive of r wrote the file after r did.
LastWriterOfItsHive(r) ==
    \A p \in SuccessfulBuyers(req[r].body.hiveId) : req[p].wroteAt <= req[r].wroteAt

\* C19: markHiveAsSold reads, modifies and rewrites the collection in one
\* step that no other request interleaves with, so after two successful
\* purchases of two different hives, however their network calls were
\* interleaved, the file holds both sales, each with its own owner and serial
\* (as long as no later purchase of the same hive has overwritten one).
C19_NoLostUpdate ==
    \A r1, r2 \in Reqs :
        ( /\ BuySucceeded(req[r1]) /\ BuySucceeded(req[r2])
          /\ req[r1].body.hiveId # req[r2].body.hiveId
          /\ LastWriterOfItsHive(r1) )
        => HoldsSaleOf(r1)

\* Two purchases of different hives have both succeeded, the second having
\* looked its hive up before the first wrote the file and written after it.
C19_Witness ==
    \E r1, r2 \in Reqs :
        /\ BuySucceeded(req[r1]) /\ BuySucceeded(req[r2])
        /\ req[r1].body.hiveId # req[r2].body.hiveId
        /\ req[r2].startedAt <= req[r1].wroteAt
        /\ req[r1].wroteAt < req[r2].wroteAt
        /\ HoldsSaleOf(r1) /\ HoldsSaleOf(r2)

\* ------------------------------------------------------------------ C20
\* C20: a record that is persisted as sold stays sold in every step, with
\* owner, serialNumber and soldAt set; a step that changes it is the Commit
\* step of a purchase of that hive, and the new values are that purchase's
\* buyer, token serial and time of writing.
C20_SoldIsAbsorbing ==
    [][\A i \in 1..Len(hivesFile) :
         hivesFile[i].status = "sold" =>
           /\ i \in 1..Len(hivesFile') /\ hivesFile'[i].id = hivesFile[i].id
           /\ hivesFile'[i].status = "sold"
           /\ hivesFile'[i].owner # Null
           /\ hivesFile'[i].serialNumber # <<>>
           /\ hivesFile'[i].soldAt # 0
           /\ hivesFile'[i] # hivesFile[i] =>
                 \E r \in Reqs :
                     /\ Commits(r) /\ req[r].body.hiveId = hivesFile[i].id
                     /\ hivesFile'[i].owner = req[r].body.investorAccountId
                     /\ hivesFile'[i].serialNumber = ToString(req[r].serial)
                     /\ nfts'[req[r].serial].owner = req[r].body.investorAccountId
                     /\ hivesFile'[i].soldAt = now]_vars

\* A record sold by one purchase has been written again by a later purchase
\* of the same hive, while the record of another hive, sold before that
\* purchase started, is still sold.
C20_Witness ==
    \E r \in Reqs, h \in AllHiveIds :
        /\ BuySucceeded(req[r]) /\ HoldsSaleOf(r)
        /\ h # req[r].body.hiveId
        /\ RecordOf(hivesFile, h).status = "sold"
        /\ RecordOf(hivesFile, h).soldAt < req[r].startedAt
        /\ \E p \in Reqs :
              /\ p # r /\ BuySucceeded(req[p]) /\ req[p].body.hiveId = req[r].body.hiveId
              /\ req[p].wroteAt < req[r].wroteAt
====
